---- MODULE Spec2Model ----
(***************************************************************************)
(* Model of auto_lims.py: a folder-watching CSV loader.  main_loop polls   *)
(* the input directory, process_file loads one file into the table         *)
(* lims_backup_historico inside one database transaction, and move_file    *)
(* routes the file to the processed or the error directory.                *)
(*                                                                         *)
(* Text is modelled as sequences of one-character strings so that the      *)
(* string functions of the program are computed, not assumed.              *)
(***************************************************************************)
EXTENDS Integers, Sequences, FiniteSets, TLC

(***************************************************************************)
(* Bounds of the model.                                                    *)
(***************************************************************************)
\* files the external writer drops into the input directory
MaxDrops == 2
\* failures injected by the environment (I/O errors, database errors)
MaxFaults == 2
\* wall-clock seconds datetime.now() can show in move_file: 0..MaxTime
MaxTime == 1
\* characters of a raw header given to clean_name alone
MaxHeaderLen == 3
\* characters of a raw cell given to parse_value alone
MaxCellLen == 4
\* values of a column given to infer_sql_type alone
MaxValues == 3
\* header cells, and data rows, of a file read alone
MaxCols == 2
MaxRows == 2

Times == 0..MaxTime

(***************************************************************************)
(* Text helpers.                                                           *)
(***************************************************************************)
Upper == <<"A","B","C","D","E","F","G","H","I","J","K","L","M",
           "N","O","P","Q","R","S","T","U","V","W","X","Y","Z">>
Lower == <<"a","b","c","d","e","f","g","h","i","j","k","l","m",
           "n","o","p","q","r","s","t","u","v","w","x","y","z">>
Digits == {"0","1","2","3","4","5","6","7","8","9"}
Whitespace == {" ", "\t", "\n", "\r"}

\* str.lower() on one character
LowerChar(c) ==
    IF \E i \in 1..Len(Upper) : Upper[i] = c
    THEN Lower[CHOOSE i \in 1..Len(Upper) : Upper[i] = c]
    ELSE c

\* str.lower()
lower(s) == [i \in 1..Len(s) |-> LowerChar(s[i])]

RECURSIVE LStrip(_)
LStrip(s) ==
    IF s # <<>> /\ Head(s) \in Whitespace THEN LStrip(Tail(s)) ELSE s

RECURSIVE RStrip(_)
RStrip(s) ==
    IF s # <<>> /\ s[Len(s)] \in Whitespace
    THEN RStrip(SubSeq(s, 1, Len(s) - 1))
    ELSE s

\* str.strip()
strip(s) == RStrip(LStrip(s))

\* str.replace(c, r) for a one-character c
RECURSIVE replace(_, _, _)
replace(s, c, r) ==
    IF s = <<>> THEN <<>>
    ELSE (IF Head(s) = c THEN r ELSE <<Head(s)>>) \o replace(Tail(s), c, r)

\* needle in s
Contains(s, needle) ==
    \E i \in 1..(Len(s) - Len(needle) + 1) :
        SubSeq(s, i, i + Len(needle) - 1) = needle

unknown_col == <<"u","n","k","n","o","w","n","_","c","o","l">>

clean_name(name) ==
    IF name = <<>> THEN unknown_col
    ELSE replace(replace(replace(replace(replace(replace(replace(
            lower(strip(name)),
            " ", <<"_">>), "-", <<"_">>), ".", <<"_">>), "/", <<"_">>),
            "+", <<"p","l","u","s","_">>), "(", <<>>), ")", <<>>)

(***************************************************************************)
(* Values of a row: None, a text, the file name, the import timestamp.     *)
(***************************************************************************)
None == [k |-> "None", s |-> <<>>]
Str(s) == [k |-> "str", s |-> s]
FileNameValue == [k |-> "filename", s |-> <<>>]
DatetimeValue == [k |-> "datetime", s |-> <<>>]

Sentinels == { <<>>, <<"N","/","A">>, <<"n","/","a">>,
               <<"N","a","N">>, <<"n","a","n">> }

\* a version that ignores the case of the null spellings
parse_value_any_case(value) ==
    IF value = None THEN None
    ELSE IF lower(strip(value.s)) \in { lower(w) : w \in Sentinels } THEN None
    ELSE Str(strip(value.s))

parse_value(value) ==
    IF value = None THEN None
    ELSE IF strip(value.s) \in Sentinels THEN None
    ELSE Str(strip(value.s))

AllDigits(s) == \A i \in 1..Len(s) : s[i] \in Digits

\* digits [ "." [digits] ]  or  "." digits
IsMantissa(s) ==
    \E p \in 0..Len(s) :
        LET int == SubSeq(s, 1, p)
            rest == SubSeq(s, p + 1, Len(s))
        IN  /\ AllDigits(int)
            /\ \/ rest = <<>> /\ int # <<>>
               \/ /\ rest # <<>>
                  /\ Head(rest) = "."
                  /\ AllDigits(Tail(rest))
                  /\ (int # <<>> \/ Tail(rest) # <<>>)

Unsigned(s) == IF s # <<>> /\ Head(s) \in {"+", "-"} THEN Tail(s) ELSE s

FloatWords == { <<"n","a","n">>, <<"i","n","f">>,
                <<"i","n","f","i","n","i","t","y">> }

\* float(v) does not raise ValueError
IsFloat(v) ==
    LET u == Unsigned(lower(strip(v)))
    IN  \/ u \in FloatWords
        \/ IsMantissa(u)
        \/ \E e \in 1..Len(u) :
              /\ u[e] = "e"
              /\ IsMantissa(SubSeq(u, 1, e - 1))
              /\ SubSeq(u, e + 1, Len(u)) # <<>>
              /\ Unsigned(SubSeq(u, e + 1, Len(u))) # <<>>
              /\ AllDigits(Unsigned(SubSeq(u, e + 1, Len(u))))

\* the for loop of infer_sql_type over the values left, entered with
\* is_numeric = True: is_numeric and has_data when the loop is left
RECURSIVE scan_values(_, _)
scan_values(values, has_data) ==
    IF values = <<>> THEN [is_numeric |-> TRUE, has_data |-> has_data]
    ELSE IF Head(values) = None THEN scan_values(Tail(values), has_data)
    ELSE IF IsFloat(Head(values).s) THEN scan_values(Tail(values), TRUE)
    ELSE [is_numeric |-> FALSE, has_data |-> TRUE]

\* a version that tries the numbers before it looks at the name
infer_sql_type_numbers_first(header_name, values) ==
    LET end == scan_values(values, FALSE)
    IN  IF end.has_data /\ end.is_numeric THEN "DOUBLE PRECISION"
        ELSE IF Contains(header_name, <<"d","a","t","e">>)
                \/ Contains(header_name, <<"t","i","m","e">>)
        THEN "TIMESTAMP"
        ELSE "TEXT"

infer_sql_type(header_name, values) ==
    IF Contains(header_name, <<"d","a","t","e">>)
       \/ Contains(header_name, <<"t","i","m","e">>)
    THEN "TIMESTAMP"
    ELSE LET end == scan_values(values, FALSE)
         IN  IF end.has_data /\ end.is_numeric
             THEN "DOUBLE PRECISION"
             ELSE "TEXT"

(***************************************************************************)
(* CSV files.  A file is the sequence of rows csv.reader yields; a row is  *)
(* a sequence of cells; a blank line is the empty row.  The writer drops   *)
(* files whose content is one of the entries of Catalogue.                 *)
(***************************************************************************)
hId == <<"I","d">>
hAmount == <<"A","m","o","u","n","t">>
hX == <<"x">>
hY == <<"Y"," ","(","b",")">>
hNotes == <<"n","o","t","e","s">>

Catalogue == <<
    \* two numeric columns; the second row is short and its N/A is a null
    << <<hId, hAmount>>, << <<"1">>, <<"1","0",".","5">> >>,
       << <<"2">> >>, << <<"3">>, <<"N","/","A">> >> >>,
    \* same column count, other names; the row is long and is cut
    << <<hX, hY>>, << <<"4">>, <<"5">>, <<"6">> >> >>,
    \* same column count, the second column is text from its second row on
    << <<hId, hNotes>>, << <<"7">>, <<"0">> >>, << <<"8">>, <<"a","b","c">> >> >>,
    \* one column only
    << <<hId>>, << <<"8">> >> >>,
    \* a header and a blank line: no data
    << <<hId, hAmount>>, <<>> >>,
    \* no line at all
    <<>>
>>

Cats == 1..Len(Catalogue)

source_filename == <<"s","o","u","r","c","e","_","f","i","l","e","n","a","m","e">>
import_timestamp == <<"i","m","p","o","r","t","_","t","i","m","e","s","t","a","m","p">>

\* next(reader) raises StopIteration
NoHeaderRow(lines) == lines = <<>>

original_headers(lines) == Head(lines)

headers(lines) ==
    [i \in 1..Len(original_headers(lines)) |-> clean_name(original_headers(lines)[i])]
        \o <<source_filename, import_timestamp>>

\* a row taken with the cells it has
cleaned_row_as_read(row, n) ==
    [i \in 1..Len(row) |-> parse_value(Str(row[i]))]
        \o <<FileNameValue, DatetimeValue>>

\* one data row padded with None or cut to n cells, then the two metadata values
cleaned_row(row, n) ==
    [i \in 1..n |-> IF i <= Len(row) THEN parse_value(Str(row[i]))
                                    ELSE parse_value(None)]
        \o <<FileNameValue, DatetimeValue>>

RECURSIVE read_rows(_, _)
read_rows(rest, n) ==
    IF rest = <<>> THEN <<>>
    ELSE IF Head(rest) = <<>> THEN read_rows(Tail(rest), n)
    ELSE <<cleaned_row(Head(rest), n)>> \o read_rows(Tail(rest), n)

raw_data(lines) == read_rows(Tail(lines), Len(original_headers(lines)))

\* an exception object: its class and the line that raises it
NoErr == [type |-> "none", line |-> 0]
Raised(type, line) == [type |-> type, line |-> line]

\* a read step without the check of raw_data
read_error_unchecked(lines) ==
    IF NoHeaderRow(lines) THEN Raised("Exception", 139) ELSE NoErr

\* raise Exception("El archivo CSV esta vacio.") when next(reader) raises
\* StopIteration, raise Exception("No hay datos validos en el archivo.")
\* when no row was kept
read_error(lines) ==
    IF NoHeaderRow(lines) THEN Raised("Exception", 139)
    ELSE IF raw_data(lines) = <<>> THEN Raised("Exception", 165)
    ELSE NoErr

\* the read step raises: empty file, or no usable row
ReadRaises(lines) == read_error(lines) # NoErr

columns_data(lines, i) ==
    [r \in 1..Len(raw_data(lines)) |-> raw_data(lines)[r][i]]

column_types(lines) ==
    LET hs == headers(lines)
        num_data_cols == Len(original_headers(lines))
    IN  [i \in 1..Len(hs) |->
            IF hs[i] = source_filename THEN "TEXT"
            ELSE IF hs[i] = import_timestamp THEN "TIMESTAMP"
            ELSE IF i <= num_data_cols
                 THEN infer_sql_type(hs[i], columns_data(lines, i))
                 ELSE "TEXT"]

col_defs(lines) ==
    [i \in 1..Len(headers(lines)) |->
        [name |-> headers(lines)[i], type |-> column_types(lines)[i]]]

(***************************************************************************)
(* The database, as the program uses it: one table, created by CREATE      *)
(* TABLE IF NOT EXISTS inside the file's transaction, rows inserted by     *)
(* position with INSERT INTO t VALUES (...) without a column list.         *)
(***************************************************************************)
NoTable == <<>>
NoTxn == [ddl |-> NoTable, rows |-> 0]

\* yyyy-mm-dd
IsTimestampText(s) ==
    /\ Len(s) = 10
    /\ \A i \in 1..10 : IF i \in {5, 8} THEN s[i] = "-" ELSE s[i] \in Digits

\* the column type takes the value
Accepts(type, v) ==
    \/ v = None
    \/ type = "TEXT"
    \/ type = "DOUBLE PRECISION" /\ v.k = "str" /\ IsFloat(v.s)
    \/ type = "TIMESTAMP" /\ (v.k = "datetime" \/ (v.k = "str" /\ IsTimestampText(v.s)))

\* INSERT INTO t VALUES (row): by position, at most one value per column
RowFits(schema, row) ==
    /\ Len(row) <= Len(schema)
    /\ \A i \in 1..Len(row) : Accepts(schema[i].type, row[i])

\* the rows executemany inserts before the first row the table rejects
RECURSIVE FittingPrefix(_, _)
FittingPrefix(schema, data) ==
    IF data = <<>> \/ ~RowFits(schema, Head(data)) THEN 0
    ELSE 1 + FittingPrefix(schema, Tail(data))

(***************************************************************************)
(* Directories.  A file name is its base name followed by the timestamps   *)
(* move_file has appended to it (a, a_<t>, a_<t>_<u>, ... all with the     *)
(* same extension).  A directory maps the names in it to its entries; an   *)
(* entry is a regular file or a subdirectory and carries the number of the *)
(* drop that wrote it and its content.                                     *)
(***************************************************************************)
INPUT_DIR == "lims"
PROCESSED_DIR == "lims_processed"
ERRORS_DIR == "lims_errors"

Name(base) == [base |-> base, ts |-> <<>>]

\* the names the writer uses
DropNames == { Name(<<"a">>), Name(<<"b">>) }

EmptyDir == [n \in {} |-> 0]

Put(dir, n, f) == [m \in (DOMAIN dir) \cup {n} |-> IF m = n THEN f ELSE dir[m]]

Del(dir, n) == [m \in (DOMAIN dir) \ {n} |-> dir[m]]

\* a file routed by an earlier run of the program
OldFile == [id |-> 0, cat |-> 0, kind |-> "file"]

\* os.path.isfile(os.path.join(INPUT_DIR, f))
isfile(entry) == entry.kind = "file"

\* the directory holds the file of drop id
InDir(dir, id) == \E n \in DOMAIN dir : dir[n].id = id

\* a loop without the test of the first character
NotHidden(n) == FALSE

\* file_name.startswith('.')
Hidden(n) == n.base # <<>> /\ Head(n.base) = "."

\* the path move_file moves to, with datetime.now() showing second now
dest_path(dest, filename, now) ==
    IF filename \in DOMAIN dest
    THEN [filename EXCEPT !.ts = Append(@, now)]
    ELSE filename

\* shutil.move(file_path, dest_path): a rename, which replaces an existing
\* file.  The program never reads a routed file again: the model keeps which
\* drop it is and no longer tracks its content.
shutil_move(dest, target, f) == Put(dest, target, [f EXCEPT !.cat = 0])

(***************************************************************************)
(* State.                                                                  *)
(***************************************************************************)
VARIABLES
    input,       \* INPUT_DIR
    processed,   \* PROCESSED_DIR
    errors,      \* ERRORS_DIR
    nextId,      \* number of the next drop
    faults,      \* failures injected so far
    pc,          \* where main_loop is
    files,       \* main_loop: the listing of this cycle
    idx,         \* main_loop: position of file_name in files
    cur,         \* the file of the current iteration: its name, drop, content
    conn,        \* process_file: conn ("None", "open", "closed")
    txn,         \* the open transaction: table it created, rows it inserted
    table,       \* the committed column list of the table, NoTable if none
    stored,      \* committed rows of the table, counted per drop
    ret,         \* what process_file returned: "none", "True", "False", "raised"
    moved,       \* what move_file did in this iteration: "none", "ok", "failed"
    exc,         \* the exception in flight or last handled by main_loop
    called,      \* names process_file was called with in this cycle
    before,      \* number of committed rows when process_file was entered
    committed,   \* conn.commit() returned in this call of process_file
    present,     \* which of the three directories exist
    err,         \* process_file: the exception raised in the try body
    pin,         \* a call of one function alone: the function and its argument
    pout         \* a call of one function alone: the values it returned

vars == <<input, processed, errors, nextId, faults, pc, files, idx, cur, conn,
          txn, table, stored, ret, moved, exc, called, before, committed,
          present, err, pin, pout>>

dirs == <<input, processed, errors>>
db == <<table, stored>>
loop == <<files, idx>>
alone == <<pin, pout>>

NoCur == [name |-> Name(<<>>), id |-> 0, cat |-> 0]

Total == LET RECURSIVE Sum(_)
             Sum(i) == IF i = 0 THEN 0 ELSE stored[i] + Sum(i - 1)
         IN  Sum(MaxDrops)

\* the rows process_file read from the current file
data == raw_data(Catalogue[cur.cat])

\* the state common to every start of the program
InitRest ==
    /\ errors = EmptyDir
    /\ faults = 0
    /\ err = NoErr
    /\ files = <<>>
    /\ idx = 0
    /\ cur = NoCur
    /\ conn = "None"
    /\ txn = NoTxn
    /\ table = NoTable
    /\ stored = [i \in 1..MaxDrops |-> 0]
    /\ ret = "none"
    /\ moved = "none"
    /\ exc = "none"
    /\ called = {}
    /\ before = 0
    /\ committed = FALSE

\* a file whose name starts with a dot, written as the first drop, and a
\* subdirectory of INPUT_DIR
HiddenName == Name(<<".","h">>)
HiddenFile == [id |-> 1, cat |-> 1, kind |-> "file"]
SubdirName == Name(<<"s","u","b">>)
Subdir == [id |-> 0, cat |-> 0, kind |-> "dir"]

\* no function is called alone
NoCall == [call |-> "none"]

\* a first run: any of the three directories may be missing
Init ==
    /\ pc = "start"
    /\ input = EmptyDir
    /\ nextId = 1
    /\ processed = EmptyDir
    /\ present \in SUBSET {INPUT_DIR, PROCESSED_DIR, ERRORS_DIR}
    /\ pin = NoCall
    /\ pout = <<>>
    /\ InitRest

\* a later run: PROCESSED_DIR outlives the process (makedirs(..., exist_ok=
\* True)) and holds a file an earlier run routed there
InitLeftover ==
    /\ pc = "start"
    /\ input = EmptyDir
    /\ nextId = 1
    /\ processed = Put(EmptyDir, Name(<<"a">>), OldFile)
    /\ present = {INPUT_DIR, PROCESSED_DIR, ERRORS_DIR}
    /\ pin = NoCall
    /\ pout = <<>>
    /\ InitRest

\* a run that finds a dot-file and a subdirectory in the input directory
InitHidden ==
    /\ pc = "start"
    /\ input = Put(Put(EmptyDir, HiddenName, HiddenFile), SubdirName, Subdir)
    /\ nextId = HiddenFile.id + 1
    /\ processed = EmptyDir
    /\ present = {INPUT_DIR, PROCESSED_DIR, ERRORS_DIR}
    /\ pin = NoCall
    /\ pout = <<>>
    /\ InitRest

\* the local variables of main_loop and process_file are no longer read
Forget ==
    /\ files' = <<>>
    /\ idx' = 0
    /\ cur' = NoCur
    /\ ret' = "none"
    /\ moved' = "none"
    /\ called' = {}
    /\ before' = 0
    /\ committed' = FALSE

\* an environment failure may be injected
CanFail == faults < MaxFaults

Fault == faults' = faults + 1

(***************************************************************************)
(* The external writer puts a complete file into the input directory.  It  *)
(* is modelled right before a listing: main_loop reads the directory only  *)
(* when it lists it, so a file written at any other moment is seen exactly *)
(* as one written at the end of the sleep.                                 *)
(***************************************************************************)
Drop ==
    /\ pc = "list"
    /\ INPUT_DIR \in present
    /\ nextId <= MaxDrops
    /\ \E n \in DropNames \ DOMAIN input : \E c \in Cats :
          input' = Put(input, n, [id |-> nextId, cat |-> c, kind |-> "file"])
    /\ nextId' = nextId + 1
    /\ UNCHANGED <<processed, errors, faults, pc, files, idx, cur, conn, txn,
                   table, stored, ret, moved, exc, called, before, committed,
                   present, err, alone>>

(***************************************************************************)
(* main_loop.                                                              *)
(***************************************************************************)
\* os.makedirs(PROCESSED_DIR, exist_ok=True); os.makedirs(ERRORS_DIR,
\* exist_ok=True): the directories main_loop makes sure of before the loop
ensured == {PROCESSED_DIR, ERRORS_DIR}

Startup ==
    /\ pc = "start"
    /\ present' = present \cup ensured
    /\ pc' = "list"
    /\ UNCHANGED <<dirs, nextId, faults, loop, cur, conn, txn, db, ret, moved,
                   exc, called, before, committed, err, alone>>

\* a loop that any exception ends
main_loop_breaks(e) == "stopped"

\* a loop whose time.sleep(5) is inside the try: an exception skips it
main_loop_relists(e) == IF e = "KeyboardInterrupt" THEN "stopped" ELSE "list"

\* the except clauses of main_loop: where the loop goes with exception e
main_loop_except(e) == IF e = "KeyboardInterrupt" THEN "stopped" ELSE "sleep"

\* the for loop: the next file_name after position i that is not skipped
NextIdx(fs, i) ==
    IF \E j \in (i + 1)..Len(fs) : ~Hidden(fs[j])
    THEN CHOOSE j \in (i + 1)..Len(fs) :
            ~Hidden(fs[j]) /\ \A m \in (i + 1)..(j - 1) : Hidden(fs[m])
    ELSE 0

\* all orders os.listdir can return the names in
Orders(S) ==
    { f \in [1..Cardinality(S) -> S] :
        \A i, j \in 1..Cardinality(S) : i # j => f[i] # f[j] }

\* files = [f for f in os.listdir(INPUT_DIR) if isfile(f)]; os.listdir raises
\* FileNotFoundError when INPUT_DIR does not exist, and may fail otherwise
ListInput ==
    /\ pc = "list"
    /\ \/ /\ INPUT_DIR \in present
          /\ \E fs \in Orders({n \in DOMAIN input : isfile(input[n])}) :
                /\ files' = fs
                /\ idx' = NextIdx(fs, 0)
                /\ pc' = IF NextIdx(fs, 0) = 0 THEN "sleep" ELSE "delay"
          /\ UNCHANGED <<exc, faults>>
       \/ /\ INPUT_DIR \notin present
          /\ exc' = "Exception"
          /\ pc' = main_loop_except("Exception")
          /\ UNCHANGED <<files, idx, faults>>
       \/ /\ INPUT_DIR \in present
          /\ CanFail /\ Fault
          /\ exc' = "Exception"
          /\ pc' = main_loop_except("Exception")
          /\ UNCHANGED <<files, idx>>
    /\ UNCHANGED <<err, dirs, present, alone, nextId, cur, conn, txn, db, ret,
                   moved, called,
                   before, committed>>

\* time.sleep(1), then process_file(file_path) is entered: conn = None
Delay ==
    /\ pc = "delay"
    /\ pc' = "read"
    /\ cur' = [name |-> files[idx],
               id |-> IF files[idx] \in DOMAIN input THEN input[files[idx]].id ELSE 0,
               cat |-> 0]
    /\ called' = called \cup {files[idx]}
    /\ conn' = "None"
    /\ ret' = "none"
    /\ moved' = "none"
    /\ before' = Total
    /\ committed' = FALSE
    /\ UNCHANGED <<err, dirs, present, alone, nextId, faults, files, idx, txn, db, exc>>

(***************************************************************************)
(* process_file, one step per statement that can fail.  An exception       *)
(* raised in the try body goes to the except clause (pc = "except"), a     *)
(* KeyboardInterrupt goes past it to the finally clause (pc = "finally").  *)
(***************************************************************************)
\* 1. open the file and read it with csv.reader
Read ==
    /\ pc = "read"
    /\ \/ /\ cur' = [cur EXCEPT !.cat = input[cur.name].cat]
          /\ pc' = IF read_error(Catalogue[input[cur.name].cat]) # NoErr
                   THEN "except" ELSE "connect"
          /\ err' = read_error(Catalogue[input[cur.name].cat])
          /\ UNCHANGED faults
       \/ /\ CanFail /\ Fault
          /\ pc' = "except"
          /\ err' = Raised("OSError", 134)
          /\ UNCHANGED cur
    /\ UNCHANGED <<dirs, present, alone, nextId, loop, conn, txn, db, ret, moved, exc, called,
                   before, committed>>

\* 2. psycopg2.connect(...)
Connect ==
    /\ pc = "connect"
    /\ \/ /\ conn' = "open"
          /\ pc' = "infer"
          /\ UNCHANGED <<faults, err>>
       \/ /\ CanFail /\ Fault
          /\ pc' = "except"
          /\ err' = Raised("psycopg2.Error", 169)
          /\ UNCHANGED conn
    /\ UNCHANGED <<dirs, present, alone, nextId, loop, cur, txn, db, ret, moved, exc, called,
                   before, committed>>

\* 3. the column types are computed from the rows read
Infer ==
    /\ pc = "infer"
    /\ pc' = "ddl"
    /\ UNCHANGED <<err, dirs, present, alone, nextId, faults, loop, cur, conn, txn, db, ret, moved,
                   exc, called, before, committed>>

\* 4. cur.execute(CREATE TABLE IF NOT EXISTS ...).  With autocommit the
\* statement takes effect at once; psycopg2 runs it in the transaction.
DDLWith(autocommit) ==
    /\ pc = "ddl"
    /\ \/ /\ IF table # NoTable
             THEN UNCHANGED <<txn, table>>
             ELSE IF autocommit
                  THEN table' = col_defs(Catalogue[cur.cat]) /\ UNCHANGED txn
                  ELSE /\ txn' = [txn EXCEPT !.ddl = col_defs(Catalogue[cur.cat])]
                       /\ UNCHANGED table
          /\ pc' = "insert"
          /\ UNCHANGED <<faults, err>>
       \/ /\ CanFail /\ Fault
          /\ pc' = "except"
          /\ err' = Raised("psycopg2.Error", 203)
          /\ UNCHANGED <<txn, table>>
    /\ UNCHANGED <<dirs, present, alone, nextId, loop, cur, conn, stored, ret, moved, exc,
                   called, before, committed>>

DDLAutocommit == DDLWith(TRUE)

DDL == DDLWith(FALSE)

\* the column list an INSERT of the open transaction sees
Schema == IF table # NoTable THEN table ELSE txn.ddl

\* cur.executemany(INSERT INTO t VALUES (...), raw_data): row by row, until
\* the table rejects a row or the database fails
Insert ==
    /\ pc = "insert"
    /\ LET fit == FittingPrefix(Schema, data)
       IN  \/ /\ fit = Len(data)
              /\ txn' = [txn EXCEPT !.rows = Len(data)]
              /\ pc' = "commit"
              /\ UNCHANGED <<faults, err>>
           \/ /\ fit < Len(data)
              /\ txn' = [txn EXCEPT !.rows = fit]
              /\ pc' = "except"
              /\ err' = Raised("psycopg2.Error", 212)
              /\ UNCHANGED faults
           \/ /\ CanFail /\ Fault
              /\ \E j \in 0..(fit - 1) : txn' = [txn EXCEPT !.rows = j]
              /\ pc' = "except"
              /\ err' = Raised("psycopg2.Error", 212)
    /\ UNCHANGED <<dirs, present, alone, nextId, loop, cur, conn, db, ret, moved, exc, called,
                   before, committed>>

\* conn.commit() and return True; a KeyboardInterrupt may be raised when
\* commit returns, before the return statement
Commit ==
    /\ pc = "commit"
    /\ \/ /\ table' = IF txn.ddl # NoTable THEN txn.ddl ELSE table
          /\ stored' = [stored EXCEPT ![cur.id] = @ + txn.rows]
          /\ txn' = NoTxn
          /\ committed' = TRUE
          /\ pc' = "finally"
          /\ \/ ret' = "True" /\ UNCHANGED exc
             \/ exc' = "KeyboardInterrupt" /\ UNCHANGED ret
          /\ UNCHANGED <<faults, err>>
       \/ /\ CanFail /\ Fault
          /\ pc' = "except"
          /\ err' = Raised("psycopg2.Error", 214)
          /\ UNCHANGED <<txn, db, ret, exc, committed>>
    /\ UNCHANGED <<dirs, present, alone, nextId, loop, cur, conn, moved, called, before>>

\* except Exception: log, if conn: conn.rollback(), return False.  `how` is
\* the call made on the connection.
ExceptWith(how) ==
    /\ pc = "except"
    /\ pc' = "finally"
    /\ err' = NoErr
    /\ \/ /\ conn = "None"
          /\ ret' = "False"
          /\ UNCHANGED <<txn, db, exc, faults>>
       \/ /\ conn = "open"
          /\ IF how = "rollback"
             THEN UNCHANGED db
             ELSE /\ table' = IF txn.ddl # NoTable THEN txn.ddl ELSE table
                  /\ stored' = [stored EXCEPT ![cur.id] = @ + txn.rows]
          /\ txn' = NoTxn
          /\ ret' = "False"
          /\ UNCHANGED <<exc, faults>>
       \/ /\ conn = "open"
          /\ CanFail /\ Fault
          /\ exc' = "Exception"
          /\ UNCHANGED <<txn, db, ret>>
    /\ UNCHANGED <<dirs, present, alone, nextId, loop, cur, conn, moved, called, before,
                   committed>>

ExceptCommits == ExceptWith("commit")

Except == ExceptWith("rollback")

\* finally: if conn: conn.close().  close() releases the client side of the
\* connection and is taken not to fail; the server drops the open
\* transaction of a connection that goes away.  Then the exception in
\* flight, if any, leaves process_file for main_loop.  process_file is left:
\* raw_data is gone, and when the KeyboardInterrupt ends main_loop so are
\* all its variables.  `always` is FALSE for a close() that only the
\* exception-free path reaches.
FinallyWith(always) ==
    /\ pc = "finally"
    /\ LET next == IF exc # "none" THEN main_loop_except(exc) ELSE "route"
       IN  /\ pc' = next
           /\ IF next = "stopped"
              THEN Forget
              ELSE /\ ret' = IF exc # "none" THEN "raised" ELSE ret
                   /\ cur' = [cur EXCEPT !.cat = 0]
                   /\ UNCHANGED <<loop, moved, called, before, committed>>
    /\ IF conn = "open" /\ (always \/ exc = "none")
       THEN conn' = "closed" /\ txn' = NoTxn
       ELSE UNCHANGED <<conn, txn>>
    /\ UNCHANGED <<err, dirs, present, alone, nextId, faults, exc, db>>

FinallySkipsOnError == FinallyWith(FALSE)

Finally == FinallyWith(TRUE)

(***************************************************************************)
(* move_file and the end of the iteration.                                 *)
(***************************************************************************)
\* a handler that lets the error through
move_file_reraises(e) == e

\* except Exception in move_file: the error is logged and not raised again
move_file_except(e) == "none"

\* after the iteration at idx: the next file of the listing, or time.sleep(5)
Advance ==
    /\ idx' = NextIdx(files, idx)
    /\ pc' = IF NextIdx(files, idx) = 0 THEN "sleep" ELSE "delay"

\* if success: move_file(file_path, PROCESSED_DIR) else: move_file(
\* file_path, ERRORS_DIR).  `both` is FALSE for an if without the else.
RouteWith(both) ==
    /\ pc = "route"
    /\ \/ /\ both \/ ret = "True"
          /\ cur.name \in DOMAIN input
          /\ \E now \in Times :
                IF ret = "True"
                THEN /\ processed' = shutil_move(processed,
                                        dest_path(processed, cur.name, now),
                                        input[cur.name])
                     /\ UNCHANGED errors
                ELSE /\ errors' = shutil_move(errors,
                                        dest_path(errors, cur.name, now),
                                        input[cur.name])
                     /\ UNCHANGED processed
          /\ input' = Del(input, cur.name)
          /\ moved' = "ok"
          /\ Advance
          /\ UNCHANGED <<faults, exc>>
       \/ /\ both \/ ret = "True"
          /\ CanFail /\ Fault
          /\ moved' = "failed"
          /\ exc' = move_file_except("Exception")
          /\ IF move_file_except("Exception") = "none"
             THEN Advance
             ELSE pc' = main_loop_except("Exception") /\ UNCHANGED idx
          /\ UNCHANGED dirs
       \/ /\ ~both /\ ret # "True"
          /\ Advance
          /\ UNCHANGED <<dirs, moved, faults, exc>>
    /\ UNCHANGED <<present, err, alone, nextId, files, cur, conn, txn, db, ret,
                   called, before, committed>>

RouteOnlySuccess == RouteWith(FALSE)

Route == RouteWith(TRUE)

\* time.sleep(5), then the next iteration of while True.  What the last
\* cycle left in the local variables is never read again.
Sleep ==
    /\ pc = "sleep"
    /\ pc' = "list"
    /\ Forget
    /\ conn' = "None"
    /\ exc' = "none"
    /\ UNCHANGED <<err, dirs, present, alone, nextId, faults, txn, db>>

(***************************************************************************)
(* The stop signal: KeyboardInterrupt is raised in the statement being     *)
(* executed.  Inside the try of process_file it runs the finally clause;   *)
(* anywhere else main_loop ends and its variables with it.  During         *)
(* executemany some rows may already be inserted.                          *)
(***************************************************************************)
InTry == {"read", "connect", "infer", "ddl", "insert", "commit", "except"}

Interrupt ==
    /\ pc \in InTry \cup {"start", "list", "delay", "route", "sleep"}
    /\ exc' = "KeyboardInterrupt"
    /\ IF pc \in InTry
       THEN /\ pc' = "finally"
            /\ UNCHANGED <<loop, cur, ret, moved, called, before, committed>>
       ELSE /\ pc' = main_loop_except("KeyboardInterrupt")
            /\ Forget
    /\ IF pc = "insert"
       THEN \E j \in 0..FittingPrefix(Schema, data) : txn' = [txn EXCEPT !.rows = j]
       ELSE UNCHANGED txn
    /\ err' = NoErr
    /\ UNCHANGED <<dirs, present, alone, nextId, faults, conn, db>>

Next ==
    \/ Startup
    \/ Drop
    \/ ListInput
    \/ Delay
    \/ Read
    \/ Connect
    \/ Infer
    \/ DDL
    \/ Insert
    \/ Commit
    \/ Except
    \/ Finally
    \/ Route
    \/ Sleep
    \/ Interrupt

Spec == Init /\ [][Next]_vars

SpecLeftover == InitLeftover /\ [][Next]_vars

SpecHidden == InitHidden /\ [][Next]_vars

(***************************************************************************)
(* The program left running: no stop signal arrives, every move of a file  *)
(* succeeds and the input directory can be listed.  Database calls and the *)
(* read of a file return, with a result or with an exception; what failed  *)
(* may work again and fail again, so failures are not limited over the     *)
(* run.  main_loop is one thread and none of its calls blocks for ever:     *)
(* it keeps going from each position to the next (weak fairness of a       *)
(* change of pc, which only a step of ProgramStep makes).                  *)
(***************************************************************************)
\* what failed works again
Recover ==
    /\ pc = "list"
    /\ faults > 0
    /\ faults' = 0
    /\ UNCHANGED <<dirs, present, nextId, pc, loop, cur, conn, txn, db, ret,
                   moved, exc, called, before, committed, err, alone>>

\* the step leaves the program running and the move, if any, succeeded
Undisturbed ==
    /\ exc' # "KeyboardInterrupt"
    /\ moved' # "failed"
    /\ pc = "list" => exc' = "none"

ProgramStep ==
    \/ Startup /\ Undisturbed
    \/ ListInput /\ Undisturbed
    \/ Delay /\ Undisturbed
    \/ Read /\ Undisturbed
    \/ Connect /\ Undisturbed
    \/ Infer /\ Undisturbed
    \/ DDL /\ Undisturbed
    \/ Insert /\ Undisturbed
    \/ Commit /\ Undisturbed
    \/ Except /\ Undisturbed
    \/ Finally /\ Undisturbed
    \/ Route /\ Undisturbed
    \/ Sleep /\ Undisturbed

NextLive ==
    \/ Drop
    \/ Recover
    \/ ProgramStep

\* the positions of main_loop while it runs
Positions == InTry \cup {"start", "list", "delay", "finally", "route", "sleep"}

\* main_loop goes on to another position
GoesOn == pc \in Positions /\ pc' \in Positions \ {pc}

\* a first run where the input directory exists
InitLive == Init /\ INPUT_DIR \in present

SpecLive == InitLive /\ [][NextLive]_vars /\ WF_pc(GoesOn)

(***************************************************************************)
(* The functions clean_name, parse_value and infer_sql_type, and the read  *)
(* step of process_file, each called alone on every argument up to the     *)
(* bounds.  pin is the call, pout the sequence of values returned so far.  *)
(***************************************************************************)
\* all sequences over S of at most n elements
Seqs(S, n) == UNION { [1..k -> S] : k \in 0..n }

\* characters of raw headers: letters of both cases, whitespace of two
\* kinds, and characters clean_name replaces or removes
HeaderChars == {"a", "B", " ", "\t", "(", ")", "+"}

\* characters of raw cells: the letters of the null spellings and a blank
CellChars == {"n", "a", "N", "A", "/", " "}

\* normalized header names: plain, with 'date', with 'time'
ColumnNames == { <<"i","d">>, <<"u","p","d","a","t","e","d">>,
                 <<"r","u","n","t","i","m","e">> }

\* normalized values of a column
ColumnValues == { None, Str(<<"1",".","5">>), Str(<<"-","2","e","3">>),
                  Str(<<"i","n","f">>), Str(<<"a","b","c">>) }

\* cells of the rows of a file read alone
RowCells == { <<"7">>, <<" ","N","/","A">> }

InitAlone ==
    /\ pc = "alone"
    /\ input = EmptyDir
    /\ nextId = 1
    /\ processed = EmptyDir
    /\ present = {INPUT_DIR, PROCESSED_DIR, ERRORS_DIR}
    /\ InitRest
    /\ pout = <<>>
    /\ \/ \E h \in Seqs(HeaderChars, MaxHeaderLen) :
             pin = [call |-> "clean_name", arg |-> h]
       \/ \E v \in {None} \cup { Str(c) : c \in Seqs(CellChars, MaxCellLen) } :
             pin = [call |-> "parse_value", arg |-> v]
       \/ \E n \in ColumnNames : \E vs \in Seqs(ColumnValues, MaxValues) :
             pin = [call |-> "infer_sql_type", arg |-> [header_name |-> n, values |-> vs]]
       \/ \E hs \in Seqs({hId}, MaxCols) :
             \E rows \in Seqs(Seqs(RowCells, MaxCols + 1), MaxRows) :
                pin = [call |-> "read", arg |-> <<hs>> \o rows]

main == <<dirs, present, nextId, faults, pc, loop, cur, conn, txn, db, ret,
          moved, exc, called, before, committed, err>>

\* clean_name(h), then clean_name of what it returned
CallCleanName ==
    /\ pin.call = "clean_name"
    /\ Len(pout) < 2
    /\ pout' = Append(pout, clean_name(IF pout = <<>> THEN pin.arg
                                                      ELSE pout[Len(pout)]))
    /\ UNCHANGED <<main, pin>>

CallParseValue ==
    /\ pin.call = "parse_value"
    /\ pout = <<>>
    /\ pout' = <<parse_value(pin.arg)>>
    /\ UNCHANGED <<main, pin>>

CallInferSqlType ==
    /\ pin.call = "infer_sql_type"
    /\ pout = <<>>
    /\ pout' = <<infer_sql_type(pin.arg.header_name, pin.arg.values)>>
    /\ UNCHANGED <<main, pin>>

\* the rows process_file reads from the file
CallRead ==
    /\ pin.call = "read"
    /\ pout = <<>>
    /\ pout' = <<raw_data(pin.arg)>>
    /\ UNCHANGED <<main, pin>>

NextAlone ==
    \/ CallCleanName
    \/ CallParseValue
    \/ CallInferSqlType
    \/ CallRead

SpecAlone == InitAlone /\ [][NextAlone]_vars

(***************************************************************************)
(* Properties.                                                             *)
(***************************************************************************)
\* control is inside process_file
InCall == pc \in InTry \cup {"finally"}

\* the iteration of the file cur is over: process_file has returned or
\* raised, and move_file, if it was called, has returned
StepOver == cur # NoCur /\ pc \in {"delay", "sleep"}

\* process_file has returned or raised and move_file is not yet called
CallOver == cur # NoCur /\ ret # "none" /\ moved = "none" /\ ~InCall

\* the number of rows process_file loads from the file it was called with
\* (the file is in the input directory until move_file has moved it)
RowsOfCur ==
    LET lines == Catalogue[input[cur.name].cat]
    IN  IF ReadRaises(lines) THEN 0 ELSE Len(raw_data(lines))

\* C1: once the iteration of a file is over, the file is in the processed
\* directory exactly if process_file committed its rows and returned True, in
\* the error directory otherwise, and it is in the input directory only if
\* move_file failed.
C1_RoutedByOutcome ==
    StepOver =>
        /\ moved # "failed" => ~InDir(input, cur.id)
        /\ moved # "failed" =>
              IF committed THEN InDir(processed, cur.id) ELSE InDir(errors, cur.id)
        /\ InDir(processed, cur.id) => ret = "True"

\* C2: the load of a file is all or nothing.  While process_file runs and
\* has not committed, the table holds the rows it held at entry; when the
\* call is over the table holds all rows of the file in addition if the
\* commit went through and exactly the rows it held at entry if not; a call
\* that returned True committed, a call that returned False did not.
C2_AllOrNothing ==
    /\ pc \in InTry => Total = before /\ ~committed
    /\ CallOver =>
          /\ Total = before + (IF committed THEN RowsOfCur ELSE 0)
          /\ ret = "True" => committed
          /\ ret = "False" => ~committed

\* a load that failed at its second row against a table that holds rows: the
\* first row was inserted and is not in the table
C2_Witness ==
    /\ pc = "route" /\ ret = "False" /\ conn = "closed"
    /\ faults = 0
    /\ before > 0 /\ Total = before
    /\ table # NoTable
    /\ RowsOfCur > 1
    /\ FittingPrefix(table, raw_data(Catalogue[input[cur.name].cat])) = 1

\* C3: outside process_file no connection is open: on every way out of
\* process_file (return True, return False, an exception of rollback, a
\* KeyboardInterrupt) the connection it opened has been closed.
C3_ConnectionClosed == ~InCall => conn # "open"

\* the stop signal arrived in process_file after it had connected, and
\* main_loop has ended
C3_Witness == pc = "stopped" /\ conn = "closed" /\ exc = "KeyboardInterrupt"

\* C4: when a cycle ends otherwise than by the stop signal, process_file has
\* been called with every listed file whose name does not start with a dot.
C4_EveryFileAttempted ==
    (pc = "sleep" /\ exc # "KeyboardInterrupt") =>
        \A i \in 1..Len(files) : ~Hidden(files[i]) => files[i] \in called

\* C5: main_loop ends only by KeyboardInterrupt; an exception that escapes
\* the cycle leaves the loop at time.sleep(5); after the sleep comes the next
\* listing.
C5_OnlyStopSignalEndsLoop ==
    [][ /\ pc' = "stopped" => exc' = "KeyboardInterrupt"
        /\ (exc' = "Exception" /\ ~InCall') => pc' = "sleep"
        /\ pc = "sleep" => pc' \in {"sleep", "list", "stopped"} ]_vars

\* an exception escaped the cycle and the loop is at its sleep
C5_Witness == pc = "sleep" /\ exc = "Exception"

\* every file of the directory is still there under its name, unchanged
Kept(dir, dirNext) ==
    \A n \in DOMAIN dir : n \in DOMAIN dirNext /\ dirNext[n] = dir[n]

\* C6: no step replaces or removes a file of the processed or of the error
\* directory: move_file never overwrites.
C6_NeverOverwrites ==
    [][Kept(processed, processed') /\ Kept(errors, errors')]_vars

\* the column names of the table
TableNames == [i \in 1..Len(table) |-> table[i].name]

\* C7: a call of process_file that returns True while the table exists was
\* made with a file whose columns are the table's columns (so a file with
\* another column set fails, stores no row and goes to the error directory).
C7_MismatchFails ==
    (pc = "route" /\ ret = "True") =>
        headers(Catalogue[input[cur.name].cat]) = TableNames

\* C8: the table comes into existence only in the commit of a file's load,
\* with the columns of that file, and once it exists its column list never
\* changes.
C8_SchemaFixed ==
    [][ /\ table # NoTable => table' = table
        /\ (table = NoTable /\ table' # NoTable) =>
              /\ pc = "commit"
              /\ committed'
              /\ table' = col_defs(Catalogue[cur.cat])
              /\ stored'[cur.id] = Len(data) ]_vars

\* the table exists and a file with other columns has been processed and has
\* been rejected by the table
C8_Witness ==
    /\ pc = "route" /\ ret = "False" /\ conn = "closed"
    /\ faults = 0
    /\ table # NoTable
    /\ ~ReadRaises(Catalogue[input[cur.name].cat])
    /\ headers(Catalogue[input[cur.name].cat]) # TableNames

\* the position of the current file in the listing
PosCur == CHOOSE i \in 1..Len(files) : files[i] = cur.name

\* C9: when move_file has failed, no exception reaches main_loop, the file
\* is where it was, and the loop is at the next file of the listing (at the
\* sleep if there is none).
C9_MoveFailureContained ==
    moved = "failed" =>
        /\ exc = "none"
        /\ cur.name \in DOMAIN input /\ input[cur.name].id = cur.id
        /\ ~InDir(processed, cur.id) /\ ~InDir(errors, cur.id)
        /\ IF NextIdx(files, PosCur) = 0
           THEN pc = "sleep"
           ELSE pc = "delay" /\ idx = NextIdx(files, PosCur)

\* move_file failed for one file and the loop is about to process the next
C9_Witness == moved = "failed" /\ pc = "delay" /\ files[idx] # cur.name

\* C10: the table never holds the rows of one file twice: when a load has
\* been committed, the table holds exactly the rows of that file once.
C10_LoadedOnce ==
    (pc = "route" /\ committed) => stored[cur.id] = RowsOfCur

\* C11: once main_loop is in its loop, the input, the processed and the
\* error directory all exist, so the listing finds the directory it lists.
C11_DirectoriesCreated ==
    pc \notin {"start", "stopped"} =>
        {INPUT_DIR, PROCESSED_DIR, ERRORS_DIR} \subseteq present


\* C12: clean_name is idempotent: for every raw header h, applying
\* clean_name to clean_name(h) returns clean_name(h) again.
C12_CleanNameIdempotent ==
    (pin.call = "clean_name" /\ Len(pout) = 2) => pout[2] = pout[1]


\* the file has no line / a header row and no row with a cell
NoLine(lines) == lines = <<>>
HeaderOnly(lines) ==
    lines # <<>> /\ \A r \in 2..Len(lines) : lines[r] = <<>>

\* the content of the file process_file is called with
FileOfCur == Catalogue[input[cur.name].cat]

\* a file without a line fails with an exception of class emptyClass, a
\* file with a header and no usable row with one of class noDataClass; for
\* both process_file returns False and move_file, when it succeeds, moves
\* the file to the error directory
ReadFails(emptyClass, noDataClass) ==
    /\ (pc = "read" /\ (NoLine(FileOfCur) \/ HeaderOnly(FileOfCur)))
          => pc' \in {"read", "except", "finally"}
    /\ (pc = "read" /\ pc' = "except" /\ cur'.cat # 0 /\ NoLine(FileOfCur))
          => err' = Raised(emptyClass, 139)
    /\ (pc = "read" /\ pc' = "except" /\ cur'.cat # 0 /\ HeaderOnly(FileOfCur))
          => err' = Raised(noDataClass, 165)
    /\ (pc = "finally" /\ pc' = "route"
           /\ (NoLine(FileOfCur) \/ HeaderOnly(FileOfCur)))
          => ret' = "False"
    /\ (pc = "route" /\ moved' = "ok"
           /\ (NoLine(FileOfCur) \/ HeaderOnly(FileOfCur)))
          => InDir(errors', cur.id) /\ ~InDir(input', cur.id)

C14_OneFileAtATime ==
    /\ txn # NoTxn => (conn = "open" /\ InCall)
    /\ pc \in {"read", "connect"} => (conn = "None" /\ txn = NoTxn)
    /\ (pc = "delay" /\ cur # NoCur) =>
          /\ moved \in {"ok", "failed"}
          /\ conn # "open"
          /\ txn = NoTxn

\* the second file of a cycle is about to be read after the first one
\* failed in its transaction and was routed
C14_Witness ==
    /\ pc = "delay"
    /\ idx = 2
    /\ ret = "False"
    /\ conn = "closed"
    /\ moved = "ok"


\* C15: only the regular files of the input directory whose name does not
\* start with a dot are eligible.  The dot-file and the subdirectory stay
\* in the input directory as they are; main_loop never delays for them,
\* never calls process_file with them and never moves them.
C15_OnlyVisibleRegularFiles ==
    /\ HiddenName \in DOMAIN input /\ input[HiddenName] = HiddenFile
    /\ SubdirName \in DOMAIN input /\ input[SubdirName] = Subdir
    /\ ~InDir(processed, HiddenFile.id) /\ ~InDir(errors, HiddenFile.id)
    /\ \A n \in {HiddenName, SubdirName} :
          /\ n \notin called
          /\ cur.name # n
          /\ n \notin DOMAIN processed \cup DOMAIN errors
          /\ pc = "delay" => files[idx] # n

\* a cycle that listed the dot-file and a regular file has processed and
\* moved the regular file
C15_Witness ==
    /\ pc = "sleep"
    /\ \E i \in 1..Len(files) : files[i] = HiddenName
    /\ \E i \in 1..Len(files) : files[i] \in called
    /\ moved = "ok"


\* C16: infer_sql_type returns the temporal type when the normalized name
\* contains 'date' or 'time'; otherwise the numeric type when at least one
\* value is non-null and every non-null value parses as a float; otherwise
\* the text type.
C16_InferredType ==
    (pin.call = "infer_sql_type" /\ pout # <<>>) =>
        LET name == pin.arg.header_name
            vs == pin.arg.values
            nonNull == { i \in 1..Len(vs) : vs[i] # None }
        IN  pout[1] =
              IF \E w \in { <<"d","a","t","e">>, <<"t","i","m","e">> } :
                    Contains(name, w)
              THEN "TIMESTAMP"
              ELSE IF nonNull # {} /\ \A i \in nonNull : IsFloat(vs[i].s)
              THEN "DOUBLE PRECISION"
              ELSE "TEXT"

\* a column of nulls only, under a name without date or time, is typed text
C16_Witness ==
    /\ pin.call = "infer_sql_type"
    /\ pout = <<"TEXT">>
    /\ Len(pin.arg.values) = MaxValues
    /\ \A i \in 1..Len(pin.arg.values) : pin.arg.values[i] = None


\* the lines of the file that are rows with at least one cell, and the k-th
\* of them
Usable(lines) == { r \in 2..Len(lines) : lines[r] # <<>> }
UsableLine(lines, k) ==
    lines[CHOOSE r \in Usable(lines) :
            Cardinality({ q \in Usable(lines) : q <= r }) = k]

\* C17: for a file with N header cells every row process_file loads has
\* exactly N data values followed by the two metadata values: a row with
\* fewer cells has null in its missing trailing positions, a row with N
\* cells or more gives its first N cells, and a row with no cell is skipped
\* and not counted.
C17_RowShape ==
    (pin.call = "read" /\ pout # <<>>) =>
        LET lines == pin.arg
            N == Len(lines[1])
            loaded == pout[1]
        IN  /\ Len(loaded) = Cardinality(Usable(lines))
            /\ \A k \in 1..Len(loaded) :
                  /\ Len(loaded[k]) = N + 2
                  /\ \A i \in 1..N :
                        loaded[k][i] =
                          IF i <= Len(UsableLine(lines, k))
                          THEN parse_value(Str(UsableLine(lines, k)[i]))
                          ELSE None
                  /\ loaded[k][N + 1] = FileNameValue
                  /\ loaded[k][N + 2] = DatetimeValue

\* a file with a blank line and a short row: one row is loaded, padded
C17_Witness ==
    /\ pin.call = "read"
    /\ pout # <<>>
    /\ Len(pin.arg) = 3
    /\ pin.arg[2] = <<>>
    /\ Len(pin.arg[3]) = 1
    /\ Len(pin.arg[1]) = MaxCols
    /\ Len(pout[1]) = 1
    /\ pout[1][1][MaxCols] = None


\* t is s without its leading and trailing whitespace
IsTrimmed(t, s) ==
    \E a \in 0..Len(s) : \E b \in a..Len(s) :
        /\ t = SubSeq(s, a + 1, b)
        /\ \A i \in (1..a) \cup ((b + 1)..Len(s)) : s[i] \in Whitespace
        /\ t # <<>> => (t[1] \notin Whitespace /\ t[Len(t)] \notin Whitespace)

\* C18: parse_value maps an absent cell, and every cell whose trimmed text
\* is exactly "", "N/A", "n/a", "NaN" or "nan", to null, and every other
\* cell to its trimmed text unchanged.
C18_ParsedValue ==
    (pin.call = "parse_value" /\ pout # <<>>) =>
        IF pin.arg = None THEN pout[1] = None
        ELSE \E t \in { SubSeq(pin.arg.s, a + 1, b) :
                          a \in 0..Len(pin.arg.s), b \in 0..Len(pin.arg.s) } :
                /\ IsTrimmed(t, pin.arg.s)
                /\ pout[1] =
                      IF t \in { <<>>, <<"N","/","A">>, <<"n","/","a">>,
                                 <<"N","a","N">>, <<"n","a","n">> }
                      THEN None
                      ELSE [k |-> "str", s |-> t]

\* a null spelling after a blank has become null
C18_Witness ==
    /\ pin.call = "parse_value"
    /\ pin.arg = Str(<<" ","n","a","n">>)
    /\ pout = <<None>>


\* C19: a cycle runs in the order LIST_INPUT, then for each file DELAY,
\* PROCESS, ROUTE, then SLEEP, then the next LIST_INPUT.  process_file is
\* entered only from the delay and the delay is followed by nothing else;
\* move_file is called only when process_file has returned True or False;
\* and the directory is listed again only after the sleep, which also ends
\* a cycle that an exception cut short.  Only the stop signal leaves the
\* order.
C19_CycleOrder ==
    [][ /\ (pc' = "read" /\ pc # "read") => pc = "delay"
        /\ pc = "delay" => pc' \in {"read", "stopped"}
        /\ (pc' = "route" /\ pc # "route") =>
              (pc = "finally" /\ ret' \in {"True", "False"})
        /\ pc = "finally" => pc' \in {"route", "sleep", "stopped"}
        /\ pc = "route" => pc' \in {"delay", "sleep", "stopped"}
        /\ pc = "list" => pc' \in {"list", "delay", "sleep", "stopped"}
        /\ (pc = "list" /\ exc' = "Exception") => pc' = "sleep"
        /\ (pc' = "list" /\ pc # "list") => pc \in {"start", "sleep"}
        /\ (pc' = "delay" /\ pc # "delay") => pc \in {"list", "route"} ]_vars

\* a cycle that the exception of process_file cut short is at its sleep
C19_Witness ==
    /\ pc = "sleep"
    /\ ret = "raised"
    /\ exc = "Exception"
    /\ Len(files) = MaxDrops
    /\ Cardinality(called) = 1


\* C20: while the program is left running, database calls return and moves
\* succeed, every file that is in the input directory eventually leaves it
\* for the processed or the error directory.
C20_EveryFileLeaves ==
    \A i \in 1..MaxDrops :
        InDir(input, i) ~> (InDir(processed, i) \/ InDir(errors, i))

====
